---- MODULE Spec2Model ----
(***************************************************************************)
(* TrendRadar AI client (trendradar/ai/client.py): request construction    *)
(* and the tool-calling loop of AIClient.chat_with_tools.                  *)
(*                                                                         *)
(* One invocation of chat_with_tools is modelled as a state machine whose  *)
(* steps are cut at the calls that leave the client: the capability probe, *)
(* every completion() request and every tool_executor() call.              *)
(***************************************************************************)
EXTENDS Integers, Sequences, FiniteSets, TLC

(***************************************************************************)
(* Python values.  Every value is a record of one shape so that values of  *)
(* different Python types can be compared: t is the type tag, s the text   *)
(* of a str, n the number of an int, d the items of a dict (a set of       *)
(* <<key, value>> pairs) or the elements of a list.                        *)
(***************************************************************************)
PyNone == [t |-> "none", s |-> "", n |-> 0, d |-> {}]

PyStr(text) == [t |-> "str", s |-> text, n |-> 0, d |-> {}]

PyInt(num) == [t |-> "int", s |-> "", n |-> num, d |-> {}]

PyDict(items) == [t |-> "dict", s |-> "", n |-> 0, d |-> items]

PyList(elems) == [t |-> "list", s |-> "", n |-> 0, d |-> elems]

\* Python truth value of v, as `if v`, `not v` and `v or ""` use it.
Truthy(v) ==
    CASE v.t = "none" -> FALSE
      [] v.t = "str"  -> v.s # ""
      [] v.t = "int"  -> v.n # 0
      [] v.t = "dict" -> v.d # {}
      [] v.t = "list" -> v.d # {}

\* `a or b`
PyOr(a, b) == IF Truthy(a) THEN a ELSE b

(***************************************************************************)
(* json.loads(tool_call.function.arguments).  The outcome is the parsed    *)
(* value, or the exception json.loads raises: TypeError for a payload that *)
(* is not text, JSONDecodeError for text that is not JSON.                 *)
(***************************************************************************)
ArgsObject == "{\"ts_code\": \"885728.TI\"}"

ArgsEmptyObject == "{}"

ArgsMalformed == "{not json"

ArgsJsonNull == "null"

ArgsJsonList == "[]"

ArgsJsonNumber == "3"

ArgsEmptyText == ""

json_loads(payload) ==
    IF payload.t # "str"
    THEN [exc |-> "TypeError", value |-> PyNone]
    ELSE CASE payload.s = ArgsObject ->
                [exc |-> "", value |-> PyDict({<<"ts_code", "885728.TI">>})]
           [] payload.s = ArgsEmptyObject -> [exc |-> "", value |-> PyDict({})]
           [] payload.s = ArgsJsonNull    -> [exc |-> "", value |-> PyNone]
           [] payload.s = ArgsJsonList    -> [exc |-> "", value |-> PyList({})]
           [] payload.s = ArgsJsonNumber  -> [exc |-> "", value |-> PyInt(3)]
           [] OTHER -> [exc |-> "JSONDecodeError", value |-> PyNone]

\* Variant of ParseArgsCaught: TypeError is not caught.
ParseArgsCaughtJsonOnly == {"JSONDecodeError"}

\* try: func_args = json.loads(...)  except (JSONDecodeError, TypeError): {}
ParseArgsCaught == {"JSONDecodeError", "TypeError"}

func_args_of(tool_call) ==
    LET r == json_loads(tool_call.arguments)
    IN  IF r.exc \in ParseArgsCaught THEN PyDict({}) ELSE r.value

(***************************************************************************)
(* The client object after AIClient.__init__, and the request of           *)
(* _build_params.  A request is a function from parameter names to values. *)
(***************************************************************************)
EmptyMap == [k \in {} |-> PyNone]

Get(map, key, default) == IF key \in DOMAIN map THEN map[key] ELSE default

DeepSeekClient ==
    [model |-> PyStr("deepseek/deepseek-chat"), api_key |-> PyStr("sk-1"),
     api_base |-> PyStr(""), temperature |-> PyInt(1),
     max_tokens |-> PyInt(5000), timeout |-> PyInt(120),
     num_retries |-> PyInt(2), fallback_models |-> PyList({})]

ProxyClient ==
    [model |-> PyStr("openai/gpt-4o"), api_key |-> PyStr(""),
     api_base |-> PyStr("https://proxy.example/v1"), temperature |-> PyInt(0),
     max_tokens |-> PyNone, timeout |-> PyInt(30),
     num_retries |-> PyInt(0),
     fallback_models |-> PyList({PyStr("deepseek/deepseek-chat")})]

NoOverrides == EmptyMap

ToolChoiceOverride == [k \in {"tool_choice"} |-> PyStr("required")]

SamplingOverrides ==
    [k \in {"max_tokens", "temperature"} |-> IF k = "max_tokens" THEN PyInt(0) ELSE PyInt(2)]

\* `if max_tokens and max_tokens > 0`
MaxTokensIncluded(max_tokens) == Truthy(max_tokens) /\ max_tokens.n > 0

build_params(self, messages, kwargs) ==
    LET base == [k \in {"model", "messages", "temperature", "timeout", "num_retries"} |->
                   CASE k = "model"       -> self.model
                     [] k = "messages"    -> messages
                     [] k = "temperature" -> Get(kwargs, "temperature", self.temperature)
                     [] k = "timeout"     -> Get(kwargs, "timeout", self.timeout)
                     [] k = "num_retries" -> Get(kwargs, "num_retries", self.num_retries)]
        key == IF Truthy(self.api_key)
               THEN ("api_key" :> self.api_key) ELSE EmptyMap
        url == IF Truthy(self.api_base)
               THEN ("api_base" :> self.api_base) ELSE EmptyMap
        max_tokens == Get(kwargs, "max_tokens", self.max_tokens)
        cap == IF MaxTokensIncluded(max_tokens)
               THEN ("max_tokens" :> max_tokens) ELSE EmptyMap
        fb  == IF Truthy(self.fallback_models)
               THEN ("fallbacks" :> self.fallback_models) ELSE EmptyMap
        params == base @@ key @@ url @@ cap @@ fb
    IN  \* for key, value in kwargs.items(): if key not in params: params[key] = value
        params @@ kwargs

(***************************************************************************)
(* Messages, tool calls and model responses.                               *)
(* A message is a record of one shape; the fields a role does not carry    *)
(* are empty.  tool_calls is a sequence: an absent tool_calls (None) and   *)
(* an empty list are both the empty sequence, `not tool_calls` holds of    *)
(* both.                                                                   *)
(***************************************************************************)
Msg(role, content) ==
    [role |-> role, content |-> content, tool_calls |-> <<>>,
     tool_call_id |-> "", name |-> ""]

ToolCall(id, name, arguments) == [id |-> id, name |-> name, arguments |-> arguments]

\* response.choices[0].message of a completion() response
Response(content, tool_calls) ==
    [role |-> "assistant", content |-> content, tool_calls |-> tool_calls,
     tool_call_id |-> "", name |-> ""]

\* Variant of tool_message: the function name in place of the call id.
tool_message_by_name(tool_call, func_name, tool_result) ==
    [role |-> "tool", content |-> PyStr(tool_result), tool_calls |-> <<>>,
     tool_call_id |-> func_name, name |-> func_name]

\* {"tool_call_id": tool_call.id, "role": "tool", "name": func_name, "content": tool_result}
tool_message(tool_call, func_name, tool_result) ==
    [role |-> "tool", content |-> PyStr(tool_result), tool_calls |-> <<>>,
     tool_call_id |-> tool_call.id, name |-> func_name]

\* The tool schema list handed to chat_with_tools; the client passes it through.
ToolSchema == PyList({PyStr("get_top_list"), PyStr("get_limit_list"), PyStr("get_moneyflow")})

\* The message sequences a caller passes in.
ShortConversation == <<Msg("user", PyStr("today's hot sectors?"))>>

\* A conversation that already holds a finished tool exchange.
LongConversation ==
    <<Msg("system", PyStr("you are an analyst")),
      Msg("user", PyStr("why did 885728.TI rise?")),
      Response(PyNone, <<ToolCall("call_0", "get_top_list", PyStr(ArgsObject))>>),
      [role |-> "tool", content |-> PyStr("date|code|name"), tool_calls |-> <<>>,
       tool_call_id |-> "call_0", name |-> "get_top_list"],
      Msg("assistant", PyStr("it led the top list")),
      Msg("user", PyStr("go on"))>>

\* The invocations explored: a client, the overrides and the caller's messages.
Invocations ==
    { [self |-> DeepSeekClient, kwargs |-> NoOverrides, messages |-> ShortConversation],
      [self |-> ProxyClient, kwargs |-> ToolChoiceOverride, messages |-> LongConversation],
      [self |-> DeepSeekClient, kwargs |-> SamplingOverrides, messages |-> LongConversation] }

\* The tool-call lists a response may carry: one, two or three calls, with
\* well-formed, malformed, absent and non-object argument payloads.
ToolCallLists ==
    { <<ToolCall("call_a", "get_top_list", PyStr(ArgsObject))>>,
      <<ToolCall("call_a", "get_limit_list", PyStr(ArgsMalformed))>>,
      <<ToolCall("call_a", "get_moneyflow", PyNone),
        ToolCall("call_b", "get_top_list", PyStr(ArgsJsonNull))>>,
      <<ToolCall("call_a", "get_limit_list", PyStr(ArgsJsonList)),
        ToolCall("call_b", "get_moneyflow", PyStr(ArgsEmptyText)),
        ToolCall("call_c", "get_top_list", PyStr(ArgsEmptyObject))>> }

Contents == {PyNone, PyStr(""), PyStr("final answer")}

\* What completion() may answer: a response with or without tool calls.
Responses ==
    {Response(c, <<>>) : c \in Contents}
        \cup {Response(IF Len(tc) = 1 THEN PyStr("let me look that up") ELSE PyNone, tc) :
                 tc \in ToolCallLists}

RECURSIVE Repeat(_, _)
Repeat(text, times) == IF times = 0 THEN "" ELSE text \o Repeat(text, times - 1)

\* A table of 210 characters.
LongResult == Repeat("000001.SZ|10.52|", 13) \o "ok"

\* The texts tool_executor may return.
ToolResults == {"date|code|name", LongResult}

PreviewLimit == 200

\* result_preview = tool_result[:200] if len(tool_result) > 200 else tool_result
result_preview(tool_result) ==
    IF Len(tool_result) > PreviewLimit THEN SubSeq(tool_result, 1, PreviewLimit)
    ELSE tool_result

\* Lines 172-176: what is printed about one tool result: the two-line report,
\* and the notice of truncation when the preview is shorter than the result.
diagnostic(seq, func_name, tool_result) ==
    [seq |-> seq, name |-> func_name, length |-> Len(tool_result),
     preview |-> result_preview(tool_result),
     notice |-> Len(tool_result) > PreviewLimit]

\* Variant of message_content: the tool message carries the preview.
message_content_preview(tool_result) == result_preview(tool_result)

\* "content": tool_result
message_content(tool_result) == tool_result

\* Largest max_rounds explored.
MaxRounds == 2

(***************************************************************************)
(* TushareToolExecutor (trendradar/ai/tools.py).  Texts are rendered in    *)
(* ASCII; a table result is its headline and the number of data rows       *)
(* rendered under it.                                                      *)
(***************************************************************************)
\* The signatures of the eight query methods: parameter names, the ones
\* without a default, whether the method refuses an empty `params`, the
\* pro_api method it calls, and the argument of df.head() (no head: 0 rows cut).
Method(names, required, guarded, api_method, capped, head) ==
    [names |-> names, required |-> required, guarded |-> guarded,
     api_method |-> api_method, capped |-> capped, head |-> head]

dispatch ==
    [ get_concept_sector_daily |->
          Method({"ts_code", "trade_date"}, {}, TRUE, "ths_daily", TRUE, 20),
      get_concept_sector_members |->
          Method({"ts_code"}, {"ts_code"}, FALSE, "ths_member", FALSE, 0),
      get_index_daily |->
          Method({"ts_code", "trade_date"}, {"ts_code"}, FALSE, "index_daily", TRUE, 10),
      get_stock_daily_basic |->
          Method({"ts_code", "trade_date"}, {"ts_code"}, FALSE, "daily_basic", TRUE, 5),
      get_stock_daily |->
          Method({"ts_code", "trade_date"}, {"ts_code"}, FALSE, "daily", TRUE, 10),
      get_limit_list |->
          Method({"trade_date", "limit_type", "ts_code"}, {}, TRUE, "limit_list_d", TRUE, 50),
      get_top_list |->
          Method({"trade_date", "ts_code"}, {}, TRUE, "top_list", TRUE, 30),
      get_moneyflow |->
          Method({"ts_code", "trade_date"}, {"ts_code"}, FALSE, "moneyflow", TRUE, 5) ]

\* The keys of a dict value.
Keys(dict) == {item[1] : item \in dict.d}

\* dict[key], or default when the key is absent
DictGet(dict, key, default) ==
    IF key \in Keys(dict) THEN (CHOOSE item \in dict.d : item[1] = key)[2] ELSE default

\* func(**arguments): TypeError when arguments is no mapping, names a
\* parameter the method does not have or leaves out one without a default.
BindError(method, arguments) ==
    \/ arguments.t # "dict"
    \/ ~(Keys(arguments) \subseteq method.names)
    \/ ~(method.required \subseteq Keys(arguments))

\* The local `params` of a method: the parameters without a default, and the
\* others when their value is not empty (`if trade_date:`).
query_params(method, arguments) ==
    {item \in arguments.d : item[1] \in method.required \/ item[2] # ""}

\* The outcome of a method: the exception that leaves it or the text it returns.
Raised(type, message) == [exc |-> type, msg |-> message, text |-> "", rows |-> 0]

Returned(text, rows) == [exc |-> "", msg |-> "", text |-> text, rows |-> rows]

ValidationError(name) ==
    IF name = "get_concept_sector_daily"
    THEN "error: provide at least one of ts_code or trade_date."
    ELSE "error: provide at least one of trade_date or ts_code."

NoDataText(name, arguments) ==
    "no data found for " \o name \o " (ts_code=" \o DictGet(arguments, "ts_code", "")
        \o ", trade_date=" \o DictGet(arguments, "trade_date", "")
        \o "). maybe not a trading day or a wrong code."

Headline(name) == name \o " rows:"

Min(a, b) == IF a <= b THEN a ELSE b

\* Variant of head: no method cuts its rows.
head_all(method, rows) == rows

\* df = df.head(n): the number of rows left
head(method, rows) == IF method.capped THEN Min(rows, method.head) ELSE rows

\* Variant of NoData: only a missing result, not an empty one.
NoDataNoneOnly(df) == df.kind = "none"

\* `if df is None or df.empty`
NoData(df) == df.kind = "none" \/ (df.kind = "rows" /\ df.rows = 0)

\* What the data source does with a query: raise, return None, return rows.
QueryRaises(type, message) == [kind |-> "raise", exc |-> type, msg |-> message, rows |-> 0]

QueryNone == [kind |-> "none", exc |-> "", msg |-> "", rows |-> 0]

QueryRows(n) == [kind |-> "rows", exc |-> "", msg |-> "", rows |-> n]

\* Variant of api_missing: the handle is constructed at every use.
api_missing_always(self_api) == TRUE

\* `if self._api is None`: the handle has to be constructed
api_missing(self_api) == self_api = PyNone

\* Variant of api_after_failure: a handle without a connection is stored.
api_after_failure_partial(self_api) == [t |-> "pro_api", s |-> "", n |-> 0, d |-> {}]

\* `import tushare` or ts.pro_api(...) raises before `self._api = ...` assigns
api_after_failure(self_api) == self_api

\* The handle ts.pro_api(self.token) returns at its ordinal-th success.
Handle(token, ordinal) == [t |-> "pro_api", s |-> token, n |-> ordinal, d |-> {}]

\* One call of a query method, get_xxx(**arguments), for an environment env:
\* is tushare importable, does pro_api succeed, what does the query answer.
\* The result also tells what happened to the handle and to the data source.
call_method(name, arguments, self_api, token, constructions, env) ==
    LET method == dispatch[name]
        params == query_params(method, arguments)
        quiet == [api |-> self_api, attempted |-> FALSE, constructed |-> FALSE, queried |-> FALSE,
                  query |-> {}, handle |-> PyNone, df |-> QueryNone]
        built == [quiet EXCEPT !.api = Handle(token, constructions + 1),
                               !.attempted = TRUE, !.constructed = TRUE]
        failed == [quiet EXCEPT !.api = api_after_failure(self_api), !.attempted = TRUE]
        ready == IF api_missing(self_api) THEN built ELSE quiet
        asked == [ready EXCEPT !.queried = TRUE, !.query = params, !.handle = ready.api,
                               !.df = env.query]
    IN  IF BindError(method, arguments)
        THEN [out |-> Raised("TypeError", "unexpected or missing keyword argument")] @@ quiet
        ELSE IF method.guarded /\ params = {}
        THEN [out |-> Returned(ValidationError(name), 0)] @@ quiet
        ELSE IF api_missing(self_api) /\ ~env.installed
        THEN [out |-> Raised("ImportError", "No module named 'tushare'")] @@ failed
        ELSE IF api_missing(self_api) /\ ~env.pro_api_ok
        THEN [out |-> Raised("Exception", "pro_api failed")] @@ failed
        ELSE IF env.query.kind = "raise"
        THEN [out |-> Raised(env.query.exc, env.query.msg)] @@ asked
        ELSE IF NoData(env.query)
        THEN [out |-> Returned(NoDataText(name, arguments), 0)] @@ asked
        ELSE [out |-> Returned(Headline(name), head(method, env.query.rows))] @@ asked

ErrorMsgLimit == 200

\* if len(error_msg) > 200: error_msg = error_msg[:200] + "..."
truncate(error_msg) ==
    IF Len(error_msg) > ErrorMsgLimit
    THEN SubSeq(error_msg, 1, ErrorMsgLimit) \o "..."
    ELSE error_msg

\* Variant of UnknownFunction: an unknown name reported as a failed query.
UnknownFunctionAsFailure(function_name) ==
    "Tushare query failed (KeyError): " \o function_name

UnknownFunction(function_name) == "error: unknown tool function '" \o function_name \o "'"

NotInstalled == "error: tushare is not installed, install it first: pip install tushare"

QueryFailed(error_type, error_msg) ==
    "Tushare query failed (" \o error_type \o "): " \o truncate(error_msg)

\* Variant of ExceptionClasses: a TypeError is not caught.
ExceptionClassesNoTypeError == {"ImportError", "Exception", "ConnectionError"}

\* The exception classes `except Exception` catches: all that occur here.
ExceptionClasses == {"ImportError", "TypeError", "Exception", "ConnectionError"}

\* execute(function_name, arguments)
execute(function_name, arguments, self_api, token, constructions, env) ==
    LET quiet == [api |-> self_api, attempted |-> FALSE, constructed |-> FALSE, queried |-> FALSE,
                  query |-> {}, handle |-> PyNone, df |-> QueryNone]
    IN  IF function_name \notin DOMAIN dispatch
        THEN [out |-> Returned(UnknownFunction(function_name), 0)] @@ quiet
        ELSE LET r == call_method(function_name, arguments, self_api, token,
                                  constructions, env)
             IN  IF r.out.exc = "" THEN r
                 ELSE IF r.out.exc = "ImportError"
                 THEN [r EXCEPT !.out = Returned(NotInstalled, 0)]
                 ELSE IF r.out.exc \in ExceptionClasses
                 THEN [r EXCEPT !.out = Returned(QueryFailed(r.out.exc, r.out.msg), 0)]
                 ELSE r

\* validate()
NoToken == "Tushare token is not configured, set it in config.yaml or TUSHARE_TOKEN"

NotInstalledShort == "tushare is not installed, install it first: pip install tushare"

validate(token, installed) ==
    IF token = "" THEN <<FALSE, NoToken>>
    ELSE IF ~installed THEN <<FALSE, NotInstalledShort>>
    ELSE <<TRUE, "">>

(***************************************************************************)
(* State of one chat_with_tools invocation.                                *)
(***************************************************************************)
VARIABLES
    self,             \* the AIClient
    kwargs,           \* **kwargs of the invocation
    max_rounds,       \* max_rounds of the invocation
    lists,            \* the heap of list objects: list reference -> its elements
    messages,         \* the local variable `messages`: a list reference
    caller_messages,  \* the elements of the caller's list when the call was made
    pc,               \* where the invocation stands
    probe,            \* outcome of litellm.supports_function_calling
    round_idx,        \* loop variable of `for round_idx in range(max_rounds)`
    tool_call_seq,    \* running count of tool calls
    response_message, \* the message of the latest completion() response
    call_idx,         \* position of the inner for loop in response_message.tool_calls
    requests,         \* the params of every completion() call made, in order
    executions,       \* every tool_executor call made, in order
    result,           \* the value returned
    exc,              \* the exception propagated to the caller
    validation,       \* what AIClient.validate_config returned
    printed,          \* the diagnostics printed about tool results, in order
    token,            \* TushareToolExecutor.token
    api,              \* TushareToolExecutor._api
    constructions,    \* how often ts.pro_api has returned a handle
    attempts,         \* how often the api property has set out to construct a handle
    executor_calls,   \* how many calls the executor has served
    last,             \* the latest execute() call: its input and what it did
    validated         \* what TushareToolExecutor.validate returned

\* The state of the TushareToolExecutor and of its use.
executor_vars == <<token, api, constructions, attempts, executor_calls, last, validated>>

vars ==
    <<self, kwargs, max_rounds, lists, messages, caller_messages, pc, probe,
      round_idx, tool_call_seq, response_message, call_idx, requests,
      executions, result, exc, validation, printed, executor_vars>>

\* No call made yet.
NotCalled == <<FALSE, "not called">>

NoCall ==
    [function_name |-> "", arguments |-> PyNone, out |-> Returned("", 0),
     api |-> PyNone, attempted |-> FALSE, constructed |-> FALSE, queried |-> FALSE, query |-> {},
     handle |-> PyNone, df |-> QueryNone]

\* TushareToolExecutor.__init__: self.token = token; self._api = None
ExecutorInit(tk) ==
    /\ token = tk
    /\ api = PyNone
    /\ constructions = 0
    /\ attempts = 0
    /\ executor_calls = 0
    /\ last = NoCall
    /\ validated = NotCalled

CallerList == "caller"

NoResponse == Response(PyNone, <<>>)

Done == pc \in {"returned", "raised"}

Init ==
    /\ \E inv \in Invocations :
          /\ self = inv.self
          /\ kwargs = inv.kwargs
          /\ caller_messages = inv.messages
    /\ max_rounds \in 1..MaxRounds
    /\ lists = [r \in {CallerList, "copy"} |-> IF r = CallerList THEN caller_messages ELSE <<>>]
    /\ messages = CallerList
    /\ pc = "probe"
    /\ probe = "pending"
    /\ round_idx = 0
    /\ tool_call_seq = 0
    /\ response_message = NoResponse
    /\ call_idx = 0
    /\ requests = <<>>
    /\ executions = <<>>
    /\ result = PyNone
    /\ exc = ""
    /\ validation = NotCalled
    /\ printed = <<>>
    /\ ExecutorInit("tushare-token")

\* Variants of InRange: one round too many; a loop that never ends.
InRangeInclusive(idx, stop) == idx <= stop

InRangeAlways(idx, stop) == TRUE

\* for round_idx in range(max_rounds): is there a round round_idx?
InRange(idx, stop) == idx < stop

\* Where control goes when the for loop is at index idx.
LoopTarget(idx, stop) == IF InRange(idx, stop) THEN "round" ELSE "final"

\* Variant of list_copy: no copy, the same list object.
list_alias(ref) == ref

\* messages = list(messages): the reference of the new list object
list_copy(ref) == "copy"

\* Variants of ProbeRoute: never fall back; fall back when the probe raises too.
ProbeRouteNoFallback(outcome) == "loop"

ProbeRouteSafeDegrade(outcome) ==
    IF outcome \in {"unsupported", "raised"} THEN "fallback" ELSE "loop"

\* try: if not supports_function_calling(...): return self.chat(...)  except Exception: print
ProbeRoute(outcome) == IF outcome = "unsupported" THEN "fallback" ELSE "loop"

(***************************************************************************)
(* Lines 126-138: the capability probe, then the copy of the message list. *)
(***************************************************************************)
Probe(outcome) ==
    /\ pc = "probe"
    /\ probe' = outcome
    /\ IF ProbeRoute(outcome) = "fallback"
       THEN /\ pc' = "fallback"
            /\ UNCHANGED <<lists, messages>>
       ELSE /\ messages' = list_copy(messages)
            /\ lists' = [lists EXCEPT ![list_copy(messages)] = lists[messages]]
            /\ pc' = LoopTarget(0, max_rounds)
    /\ round_idx' = 0
    /\ tool_call_seq' = 0
    /\ UNCHANGED <<executor_vars, validation, printed, self, kwargs, max_rounds, caller_messages, response_message,
                   call_idx, requests, executions, result, exc>>

ProbeSupported == Probe("supported")

ProbeUnsupported == Probe("unsupported")

ProbeRaises == Probe("raised")

(***************************************************************************)
(* Lines 62-68: chat(), reached from chat_with_tools when the probe says   *)
(* the model does not support function calling.  It is handed the caller's *)
(* own list.                                                               *)
(***************************************************************************)
chat_params(client, msgs, overrides) == build_params(client, msgs, overrides)

\* return response.choices[0].message.content
chat_result(response) == response.content

ChatFallbackReturns ==
    /\ pc = "fallback"
    /\ \E response \in Responses :
          /\ response_message' = response
          /\ result' = chat_result(response)
    /\ requests' = Append(requests, chat_params(self, lists[messages], kwargs))
    /\ pc' = "returned"
    /\ UNCHANGED <<executor_vars, validation, printed, self, kwargs, max_rounds, lists, messages, caller_messages, probe,
                   round_idx, tool_call_seq, call_idx, executions, exc>>

ChatFallbackRaises ==
    /\ pc = "fallback"
    /\ requests' = Append(requests, chat_params(self, lists[messages], kwargs))
    /\ pc' = "raised"
    /\ exc' = "completion"
    /\ UNCHANGED <<executor_vars, validation, printed, self, kwargs, max_rounds, lists, messages, caller_messages, probe,
                   round_idx, tool_call_seq, response_message, call_idx, executions,
                   result>>

(***************************************************************************)
(* Lines 140-155: one request of the loop and what the client does with    *)
(* the response, up to the first tool call.                                *)
(***************************************************************************)
\* params = self._build_params(...); params["tools"] = tools; params["tool_choice"] = "auto"
round_params(client, msgs, overrides) ==
    ("tools" :> ToolSchema) @@ ("tool_choice" :> PyStr("auto"))
        @@ build_params(client, msgs, overrides)

\* `if not response_message.tool_calls` is false
HasToolCalls(response) == Len(response.tool_calls) > 0

\* Variant of final_content: the content as the provider returned it.
final_content_raw(response) == response.content

\* content = response_message.content or ""
final_content(response) == PyOr(response.content, PyStr(""))

\* Variant of list_append: the message is put in front of the list.
list_prepend(msgs, message) == <<message>> \o msgs

\* messages.append(message)
list_append(msgs, message) == Append(msgs, message)

RoundRaises ==
    /\ pc = "round"
    /\ requests' = Append(requests, round_params(self, lists[messages], kwargs))
    /\ pc' = "raised"
    /\ exc' = "completion"
    /\ UNCHANGED <<executor_vars, validation, printed, self, kwargs, max_rounds, lists, messages, caller_messages, probe,
                   round_idx, tool_call_seq, response_message, call_idx, executions,
                   result>>

RoundAnswers ==
    /\ pc = "round"
    /\ requests' = Append(requests, round_params(self, lists[messages], kwargs))
    /\ \E response \in Responses :
          /\ ~HasToolCalls(response)
          /\ response_message' = response
          /\ result' = final_content(response)
    /\ pc' = "returned"
    /\ UNCHANGED <<executor_vars, validation, printed, self, kwargs, max_rounds, lists, messages, caller_messages, probe,
                   round_idx, tool_call_seq, call_idx, executions, exc>>

RoundRequestsTools ==
    /\ pc = "round"
    /\ requests' = Append(requests, round_params(self, lists[messages], kwargs))
    /\ \E response \in Responses :
          /\ HasToolCalls(response)
          /\ response_message' = response
          /\ lists' = [lists EXCEPT ![messages] = list_append(@, response)]
    /\ call_idx' = 1
    /\ pc' = "tool"
    /\ UNCHANGED <<executor_vars, validation, printed, self, kwargs, max_rounds, messages, caller_messages, probe,
                   round_idx, tool_call_seq, executions, result, exc>>

(***************************************************************************)
(* Lines 158-184: one pass of the inner for loop: parse the arguments,     *)
(* call tool_executor, append the tool message, move to the next call or   *)
(* to the next round.                                                      *)
(***************************************************************************)
\* Variant of current_call: the calls of a response are taken last to first.
current_call_reversed(response, idx) ==
    response.tool_calls[Len(response.tool_calls) + 1 - idx]

\* `for tool_call in response_message.tool_calls`: the idx-th pass of the loop
current_call(response, idx) == response.tool_calls[idx]

\* Variant of executor_raise_target: the failed call is tried again.
executor_raise_retry == "tool"

\* tool_executor(...) is called outside any try: its exception leaves chat_with_tools.
executor_raise_target == "raised"

ToolRaises ==
    /\ pc = "tool"
    /\ LET tool_call == current_call(response_message, call_idx)
           func_name == tool_call.name
           func_args == func_args_of(tool_call)
       IN  executions' = Append(executions, [name |-> func_name, args |-> func_args])
    /\ tool_call_seq' = tool_call_seq + 1
    /\ pc' = executor_raise_target
    /\ exc' = "tool_executor"
    /\ UNCHANGED <<executor_vars, validation, printed, self, kwargs, max_rounds, lists, messages, caller_messages, probe,
                   round_idx, response_message, call_idx, requests, result>>

ToolReturns ==
    /\ pc = "tool"
    /\ \E tool_result \in ToolResults :
          LET tool_call == current_call(response_message, call_idx)
              func_name == tool_call.name
              func_args == func_args_of(tool_call)
          IN  /\ executions' = Append(executions, [name |-> func_name, args |-> func_args])
              /\ printed' = Append(printed, diagnostic(tool_call_seq + 1, func_name, tool_result))
              /\ lists' = [lists EXCEPT ![messages] =
                              list_append(@, tool_message(tool_call, func_name,
                                                          message_content(tool_result)))]
    /\ tool_call_seq' = tool_call_seq + 1
    /\ IF call_idx < Len(response_message.tool_calls)
       THEN /\ call_idx' = call_idx + 1
            /\ pc' = "tool"
            /\ UNCHANGED round_idx
       ELSE /\ call_idx' = 0
            /\ round_idx' = round_idx + 1
            /\ pc' = LoopTarget(round_idx + 1, max_rounds)
    /\ UNCHANGED <<executor_vars, validation, self, kwargs, max_rounds, messages, caller_messages, probe,
                   response_message, requests, result, exc>>

(***************************************************************************)
(* Lines 186-192: the request after the last round, without the tools.     *)
(***************************************************************************)
\* Variant of final_params: the tools are attached as in a round.
final_params_with_tools(client, msgs, overrides) == round_params(client, msgs, overrides)

\* params = self._build_params(messages, **kwargs): no tools, no tool_choice added
final_params(client, msgs, overrides) == build_params(client, msgs, overrides)

FinalRaises ==
    /\ pc = "final"
    /\ requests' = Append(requests, final_params(self, lists[messages], kwargs))
    /\ pc' = "raised"
    /\ exc' = "completion"
    /\ UNCHANGED <<executor_vars, validation, printed, self, kwargs, max_rounds, lists, messages, caller_messages, probe,
                   round_idx, tool_call_seq, response_message, call_idx, executions,
                   result>>

FinalReturns ==
    /\ pc = "final"
    /\ requests' = Append(requests, final_params(self, lists[messages], kwargs))
    /\ \E response \in Responses :
          /\ response_message' = response
          /\ result' = final_content(response)
    /\ pc' = "returned"
    /\ UNCHANGED <<executor_vars, validation, printed, self, kwargs, max_rounds, lists, messages, caller_messages, probe,
                   round_idx, tool_call_seq, call_idx, executions, exc>>

Next ==
    \/ ProbeSupported
    \/ ProbeUnsupported
    \/ ProbeRaises
    \/ ChatFallbackReturns
    \/ ChatFallbackRaises
    \/ RoundRaises
    \/ RoundAnswers
    \/ RoundRequestsTools
    \/ ToolRaises
    \/ ToolReturns
    \/ FinalRaises
    \/ FinalReturns

Spec == Init /\ [][Next]_vars

\* Every external call returns or raises: a step that can be taken is taken.
FairSpec == Spec /\ WF_vars(Next)

(***************************************************************************)
(* The TushareToolExecutor in use: after its construction, any sequence of *)
(* execute() and validate() calls, in any environment.                     *)
(***************************************************************************)
\* The function names asked for: the eight tools and two names that are none.
FunctionNames == DOMAIN dispatch \cup {"get_stock_news", ""}

\* The `arguments` handed to execute().
ArgumentValues ==
    { PyDict({}),
      PyDict({<<"ts_code", "885728.TI">>}),
      PyDict({<<"trade_date", "20260214">>}),
      PyDict({<<"ts_code", "000001.SZ">>, <<"trade_date", "20260214">>}),
      PyDict({<<"ts_code", "">>, <<"trade_date", "">>}),
      PyDict({<<"limit_type", "U">>}),
      PyDict({<<"ts_code", "000001.SZ">>, <<"limit", "5">>}),
      PyNone,
      PyList({}) }

\* An upstream error message of 210 characters.
LongMessage == Repeat("rate limit ", 19) \o "!"

\* The numbers of rows the data source answers with.
RowCounts == {0, 1, 5, 6, 10, 11, 20, 21, 30, 31, 50, 51, 80}

QueryOutcomes ==
    {QueryNone, QueryRaises("ConnectionError", "connection reset"),
     QueryRaises("Exception", LongMessage)}
        \cup {QueryRows(n) : n \in RowCounts}

Environments ==
    [installed : BOOLEAN, pro_api_ok : BOOLEAN, query : QueryOutcomes]

\* Most calls made to one executor.
MaxExecutorCalls == 2

ToolInit ==
    /\ self = DeepSeekClient
    /\ kwargs = NoOverrides
    /\ max_rounds = 1
    /\ caller_messages = ShortConversation
    /\ lists = [r \in {CallerList, "copy"} |-> <<>>]
    /\ messages = CallerList
    /\ pc = "executor"
    /\ probe = "pending"
    /\ round_idx = 0
    /\ tool_call_seq = 0
    /\ response_message = NoResponse
    /\ call_idx = 0
    /\ requests = <<>>
    /\ executions = <<>>
    /\ result = PyNone
    /\ exc = ""
    /\ validation = NotCalled
    /\ printed = <<>>
    /\ \E tk \in {"", "tushare-token"} : ExecutorInit(tk)

\* Lines 236-271 with the method called: one execute() call.
Execute ==
    /\ pc = "executor"
    /\ executor_calls < MaxExecutorCalls
    /\ \E function_name \in FunctionNames, arguments \in ArgumentValues, env \in Environments :
          LET r == execute(function_name, arguments, api, token, constructions, env)
          IN  /\ last' = [function_name |-> function_name, arguments |-> arguments] @@ r
              /\ api' = r.api
              /\ constructions' = IF r.constructed THEN constructions + 1 ELSE constructions
              /\ attempts' = IF r.attempted THEN attempts + 1 ELSE attempts
    /\ executor_calls' = executor_calls + 1
    /\ pc' = "executed"
    /\ UNCHANGED <<token, validated, validation, printed, self, kwargs, max_rounds, lists, messages,
                   caller_messages, probe, round_idx, tool_call_seq, response_message,
                   call_idx, requests, executions, result, exc>>

\* Lines 702-715: one validate() call.
Validate ==
    /\ pc = "executor"
    /\ executor_calls < MaxExecutorCalls
    /\ \E installed \in BOOLEAN : validated' = validate(token, installed)
    /\ executor_calls' = executor_calls + 1
    /\ pc' = "executed"
    /\ UNCHANGED <<token, api, constructions, attempts, last, validation, printed, self, kwargs, max_rounds,
                   lists, messages, caller_messages, probe, round_idx, tool_call_seq,
                   response_message, call_idx, requests, executions, result, exc>>

\* The caller has taken what the call returned; the executor waits for the next call.
Resume ==
    /\ pc = "executed"
    /\ pc' = "executor"
    /\ last' = NoCall
    /\ validated' = NotCalled
    /\ UNCHANGED <<token, api, constructions, attempts, executor_calls, validation, printed, self, kwargs,
                   max_rounds, lists, messages, caller_messages, probe, round_idx,
                   tool_call_seq, response_message, call_idx, requests, executions,
                   result, exc>>

ToolNext == Execute \/ Validate \/ Resume

ToolSpec == ToolInit /\ [][ToolNext]_vars


(***************************************************************************)
(* A client constructed from any configuration, on which validate_config() *)
(* and chat(messages, **kwargs) are called.  chat() is the code the        *)
(* fallback of chat_with_tools runs: ChatFallbackReturns and               *)
(* ChatFallbackRaises, with pc = "fallback" for a client about to serve    *)
(* it.                                                                     *)
(***************************************************************************)
\* Lines 35-42: AIClient.__init__(config), with os.environ
client_init(config, environ) ==
    [model |-> Get(config, "MODEL", PyStr("deepseek/deepseek-chat")),
     api_key |-> PyOr(Get(config, "API_KEY", PyNone), Get(environ, "AI_API_KEY", PyStr(""))),
     api_base |-> Get(config, "API_BASE", PyStr("")),
     temperature |-> Get(config, "TEMPERATURE", PyInt(1)),
     max_tokens |-> Get(config, "MAX_TOKENS", PyInt(5000)),
     timeout |-> Get(config, "TIMEOUT", PyInt(120)),
     num_retries |-> Get(config, "NUM_RETRIES", PyInt(2)),
     fallback_models |-> Get(config, "FALLBACK_MODELS", PyList({}))]

\* `piece in text`, for a piece of one character
Contains(text, piece) == \E i \in 1..Len(text) : SubSeq(text, i, i) = piece

NoModel == "AI model is not configured (model)"

NoApiKey == "AI API key is not configured, set it in config.yaml or AI_API_KEY"

BadModelFormat(model) ==
    "bad model format: " \o model \o ", expected 'provider/model' (e.g. 'deepseek/deepseek-chat')"

\* Variant of validate_config: the shape of the model identifier is not looked at.
validate_config_any_model(client) ==
    IF ~Truthy(client.model) THEN <<FALSE, NoModel>>
    ELSE IF ~Truthy(client.api_key) THEN <<FALSE, NoApiKey>>
    ELSE <<TRUE, "">>

\* Lines 194-211: validate_config()
validate_config(client) ==
    IF ~Truthy(client.model) THEN <<FALSE, NoModel>>
    ELSE IF ~Truthy(client.api_key) THEN <<FALSE, NoApiKey>>
    ELSE IF ~Contains(client.model.s, "/") THEN <<FALSE, BadModelFormat(client.model.s)>>
    ELSE <<TRUE, "">>

\* A key the configuration does not hold.
Absent == [t |-> "absent", s |-> "", n |-> 0, d |-> {}]

Present(choice) == [k \in {key \in DOMAIN choice : choice[key] # Absent} |-> choice[k]]

\* The configurations a client is constructed from.
Configs ==
    { Present(choice) : choice \in
        [ MODEL : {Absent, PyNone, PyStr(""), PyStr("gpt4"), PyStr("deepseek/deepseek-chat")},
          API_KEY : {Absent, PyStr(""), PyStr("sk-1")},
          API_BASE : {Absent, PyStr("https://proxy.example/v1")},
          MAX_TOKENS : {Absent, PyNone, PyInt(0), PyInt(-1), PyInt(100)},
          FALLBACK_MODELS : {Absent, PyList({PyStr("openai/gpt-4o")})} ] }

Environs == {EmptyMap, [k \in {"AI_API_KEY"} |-> PyStr("env-key")]}

\* The overrides chat() is called with.
ChatOverrides ==
    { NoOverrides, ToolChoiceOverride, SamplingOverrides,
      [k \in {"max_tokens"} |-> PyInt(-5)],
      [k \in {"max_tokens"} |-> PyNone],
      [k \in {"max_tokens", "timeout", "num_retries"} |->
          IF k = "max_tokens" THEN PyInt(50) ELSE IF k = "timeout" THEN PyInt(5) ELSE PyInt(0)],
      [k \in {"model", "api_key"} |->
          IF k = "model" THEN PyStr("openai/gpt-4o") ELSE PyStr("sk-other")],
      [k \in {"api_base", "fallbacks", "stream"} |->
          IF k = "api_base" THEN PyStr("https://other.example/v1")
          ELSE IF k = "fallbacks" THEN PyList({}) ELSE PyInt(1)] }

ConfigInit ==
    /\ \E config \in Configs, environ \in Environs : self = client_init(config, environ)
    /\ kwargs \in ChatOverrides
    /\ max_rounds = 1
    /\ caller_messages = ShortConversation
    /\ lists = [r \in {CallerList, "copy"} |-> IF r = CallerList THEN caller_messages ELSE <<>>]
    /\ messages = CallerList
    /\ pc = "fallback"
    /\ probe = "pending"
    /\ round_idx = 0
    /\ tool_call_seq = 0
    /\ response_message = NoResponse
    /\ call_idx = 0
    /\ requests = <<>>
    /\ executions = <<>>
    /\ result = PyNone
    /\ exc = ""
    /\ validation = NotCalled
    /\ printed = <<>>
    /\ ExecutorInit("tushare-token")

\* One validate_config() call, before or after chat().
ValidateConfig ==
    /\ validation = NotCalled
    /\ validation' = validate_config(self)
    /\ UNCHANGED <<executor_vars, printed, self, kwargs, max_rounds, lists, messages, caller_messages,
                   pc, probe, round_idx, tool_call_seq, response_message, call_idx,
                   requests, executions, result, exc>>

ConfigNext == ValidateConfig \/ ChatFallbackReturns \/ ChatFallbackRaises

ConfigSpec == ConfigInit /\ [][ConfigNext]_vars


(***************************************************************************)
(* Properties of chat_with_tools.                                          *)
(***************************************************************************)
Last(seq) == seq[Len(seq)]

\* The conversation of the invocation: the elements of the list `messages` names.
Conversation == lists[messages]

PairedAt(msgs, i) ==
    LET calls == msgs[i].tool_calls
        N == Len(calls)
    IN  /\ i + N <= Len(msgs)
        /\ \A j \in 1..N :
              /\ msgs[i + j].role = "tool"
              /\ msgs[i + j].tool_call_id = calls[j].id
              /\ msgs[i + j].name = calls[j].name
        /\ i + N + 1 <= Len(msgs) => msgs[i + N + 1].role # "tool"

Paired(msgs) ==
    \A i \in 1..Len(msgs) :
        (msgs[i].role = "assistant" /\ Len(msgs[i].tool_calls) > 0) => PairedAt(msgs, i)

\* C2: in the messages of every model request, every assistant message with
\* N tool calls is followed by exactly N tool messages, one per call, in the
\* order of the calls, each with its call's id and function name.
C2_Pairing == \A r \in 1..Len(requests) : Paired(requests[r]["messages"])

\* A request whose messages hold an assistant message with three tool calls
\* and one with two.
C2_Witness ==
    \E r \in 1..Len(requests) :
        LET msgs == requests[r]["messages"]
        IN  /\ \E i \in 1..Len(msgs) : Len(msgs[i].tool_calls) = 3
            /\ \E i \in 1..Len(msgs) : Len(msgs[i].tool_calls) = 2

\* The one request of the fallback is the request of chat() for the caller's
\* messages and overrides, no tool is executed, and chat()'s value is returned.
FallbackIsChat ==
    /\ pc # "fallback" => Len(requests) = 1
    /\ pc = "fallback" => Len(requests) = 0
    /\ executions = <<>>
    /\ Done =>
          /\ requests[1] = chat_params(self, caller_messages, kwargs)
          /\ "tools" \notin DOMAIN requests[1]
    /\ pc = "returned" => result = response_message.content

MaxCalls == CHOOSE n \in 0..10 :
    /\ \A tc \in ToolCallLists : Len(tc) <= n
    /\ \E tc \in ToolCallLists : Len(tc) = n

\* An upper bound of the number of steps the invocation can still take.
StepsLeft ==
    CASE pc = "probe"    -> max_rounds * (MaxCalls + 1) + 2
      [] pc = "fallback" -> 1
      [] pc = "round"    -> (max_rounds - round_idx) * (MaxCalls + 1) + 1
      [] pc = "tool"     -> (Len(response_message.tool_calls) - call_idx + 1)
                               + (max_rounds - round_idx - 1) * (MaxCalls + 1) + 1
      [] pc = "final"    -> 1
      [] OTHER           -> 0

\* C4: the invocation terminates: every step brings it closer to its end (the
\* number of steps left decreases and never falls below zero), a step that is
\* not the end is followed by another, and the end, a return or a raise, comes.
C4_Terminates ==
    /\ [][StepsLeft' < StepsLeft /\ StepsLeft' >= 0]_vars
    /\ [](Done \/ ENABLED Next)
    /\ <>Done

\* The invocation ended after the model asked for tools in every round.
C4_Witness ==
    /\ Done
    /\ round_idx = max_rounds
    /\ max_rounds = MaxRounds
    /\ tool_call_seq >= max_rounds

\* `content or ""`, written out
ContentOrEmpty(content) == IF content = PyNone \/ content = PyStr("") THEN PyStr("") ELSE content

\* The conversation ends with the results of all the tool calls of response.
EndsWithResultsOf(msgs, response) ==
    LET N == Len(response.tool_calls)
        i == Len(msgs) - N
    IN  /\ i >= 1
        /\ msgs[i] = response
        /\ PairedAt(msgs, i)

\* C5: when every one of the max_rounds responses of the loop asked for tools,
\* then, the results of the last round appended, exactly one more request is
\* issued; it has no tool schema, no tool is executed after it, and the text
\* of its response is returned, the empty string for a null content.
C5_DegradedExit ==
    /\ [](  (probe \in {"supported", "raised"} /\ round_idx = max_rounds /\ ~Done)
              => /\ pc = "final"
                 /\ Len(requests) = max_rounds
                 /\ EndsWithResultsOf(Conversation, response_message)  )
    /\ [][ pc = "final" =>
              /\ Len(requests') = Len(requests) + 1
              /\ "tools" \notin DOMAIN Last(requests')
              /\ Last(requests')["messages"] = Conversation
              /\ executions' = executions
              /\ lists' = lists
              /\ pc' \in {"returned", "raised"}
              /\ pc' = "returned" => result' = ContentOrEmpty(response_message'.content) ]_vars
    /\ [][~Done]_vars

\* The degraded exit returned "" for a null content of a last response that
\* still asked for tools.
C5_Witness ==
    /\ pc = "returned"
    /\ probe = "supported"
    /\ Len(requests) = max_rounds + 1
    /\ Len(response_message.tool_calls) > 0
    /\ response_message.content = PyNone
    /\ result = PyStr("")

\* C6: a response of the loop without tool calls ends the invocation at
\* once: its text is returned, the empty string for a null content, nothing
\* is appended to the conversation, and no request or tool execution follows.
C6_NonDegradedExit ==
    [][ /\ ~Done
        /\ (pc = "round" /\ pc' # "raised" /\ Len(response_message'.tool_calls) = 0) =>
              /\ pc' = "returned"
              /\ result' = ContentOrEmpty(response_message'.content)
              /\ lists' = lists
              /\ executions' = executions
              /\ Len(requests') = Len(requests) + 1 ]_vars

\* A second-round response without tool calls and with a null content ended
\* the invocation with "".
C6_Witness ==
    /\ pc = "returned"
    /\ probe = "supported"
    /\ Len(requests) = 2
    /\ max_rounds >= 2
    /\ Len(response_message.tool_calls) = 0
    /\ response_message.content = PyNone
    /\ result = PyStr("")

C8_CallerListUnchanged == lists[CallerList] = caller_messages

\* The invocation ended, by a return or a raise, after the loop had appended
\* messages to its conversation.
C8_Witness ==
    /\ Done
    /\ probe = "supported"
    /\ Len(Conversation) > Len(caller_messages) + 1

\* The payloads that are not JSON text: absent, malformed, empty.
Unparseable(payload) == payload = PyNone \/ payload \in {PyStr(ArgsMalformed), PyStr(ArgsEmptyText)}

\* C9: a tool call whose arguments are malformed or absent is executed with
\* its function name and the empty map; parsing raises nothing, and when the
\* executor returns, the tool message of the call is appended as usual.
C9_UnparseableArguments ==
    [][ (pc = "tool" /\ Unparseable(response_message.tool_calls[call_idx].arguments)) =>
           LET tool_call == response_message.tool_calls[call_idx]
           IN  /\ executions' =
                     Append(executions, [name |-> tool_call.name, args |-> PyDict({})])
               /\ pc' = "raised" => exc' = "tool_executor"
               /\ pc' # "raised" =>
                     /\ Len(lists'[messages]) = Len(Conversation) + 1
                     /\ Last(lists'[messages]).role = "tool"
                     /\ Last(lists'[messages]).tool_call_id = tool_call.id
                     /\ Last(lists'[messages]).name = tool_call.name ]_vars

\* Calls with absent, malformed and empty arguments have been executed.
C9_Witness ==
    /\ \E i \in 1..Len(executions) : executions[i].name = "get_moneyflow" /\ executions[i].args = PyDict({})
    /\ \E i \in 1..Len(executions) : executions[i].name = "get_limit_list" /\ executions[i].args = PyDict({})
    /\ Len(Conversation) > Len(caller_messages) + 2

\* C10 as stated: the second argument of every tool_executor call is a map.
C10_ExecutorGetsMap == \A i \in 1..Len(executions) : executions[i].args.t = "dict"

\* C11: an exception of the tool executor leaves chat_with_tools: the step in
\* which the executor raises ends the invocation with that exception, nothing
\* is appended and no request is made in it, and after the end nothing more
\* happens: no other tool call of the round, no model request, no retry.
C11_ExecutorRaisePropagates ==
    [][ /\ ~Done
        /\ (pc = "tool" /\ exc' = "tool_executor") =>
              /\ pc' = "raised"
              /\ Len(executions') = Len(executions) + 1
              /\ requests' = requests
              /\ lists' = lists
              /\ result' = result ]_vars

\* The executor raised on the first of several calls of the first round, with
\* another round to go.
C11_Witness ==
    /\ pc = "raised"
    /\ exc = "tool_executor"
    /\ call_idx = 1
    /\ Len(response_message.tool_calls) > 1
    /\ Len(executions) = 1
    /\ round_idx + 1 < max_rounds

(***************************************************************************)
(* Properties of TushareToolExecutor.                                      *)
(***************************************************************************)
\* An execute() call has just returned or raised.
Executed == pc = "executed" /\ last # NoCall

StartsWith(text, prefix) ==
    Len(text) >= Len(prefix) /\ SubSeq(text, 1, Len(prefix)) = prefix

Registered == DOMAIN dispatch

\* C12: execute never raises: whatever the function name, the arguments
\* (also ones that are no map, or that do not fit the method) and the
\* environment, it returns a text that is not empty; arguments that do not
\* fit, a missing tushare, a failed pro_api and a failed query come back as
\* error texts, an upstream message cut to 200 characters and "...".
C12_ExecuteNeverRaises ==
    Executed =>
        /\ last.out.exc = ""
        /\ last.out.text # ""
        /\ (last.function_name \in Registered
              /\ BindError(dispatch[last.function_name], last.arguments))
             => StartsWith(last.out.text, "Tushare query failed (TypeError): ")
        /\ (last.queried /\ last.df.kind = "raise") =>
              /\ StartsWith(last.out.text, "Tushare query failed (" \o last.df.exc \o "): ")
              /\ Len(last.out.text) <= Len("Tushare query failed (" \o last.df.exc \o "): ") + 203
        /\ (last.function_name \in Registered /\ ~last.queried)
             => StartsWith(last.out.text, "error: ") \/ StartsWith(last.out.text, "Tushare query failed (")

\* execute was handed None as arguments of a registered tool, and another
\* time a query failed with a message of more than 200 characters.
C12_Witness ==
    /\ Executed
    /\ last.function_name = "get_moneyflow"
    /\ \/ last.arguments = PyNone
       \/ last.queried /\ last.df.kind = "raise" /\ Len(last.df.msg) > 200

\* C13: for a function name that is none of the eight tools, execute returns
\* the "unknown function" text with that name, a text no call of a registered
\* tool returns; no method runs, no query is made, no handle is constructed.
C13_UnknownFunction ==
    /\ (Executed /\ last.function_name \notin Registered) =>
          /\ last.out = Returned("error: unknown tool function '" \o last.function_name \o "'", 0)
          /\ ~last.queried
          /\ ~last.constructed
          /\ last.api = api
          /\ constructions = 0 => api = PyNone
    /\ (Executed /\ last.function_name \in Registered) =>
          \A name \in FunctionNames \ Registered :
              last.out.text # "error: unknown tool function '" \o name \o "'"

\* An unknown name was asked for while no handle existed, and none exists.
C13_Witness ==
    /\ Executed
    /\ last.function_name = "get_stock_news"
    /\ api = PyNone

\* The three methods all of whose parameters have a default.
AllOptional == {"get_concept_sector_daily", "get_limit_list", "get_top_list"}

\* C14 as stated: for get_concept_sector_daily, get_limit_list and
\* get_top_list, a call without ts_code and without trade_date returns the
\* validation error and sends no query, whatever else is supplied.
C14_NoFilterNoQuery ==
    (/\ Executed
     /\ last.function_name \in AllOptional
     /\ ~BindError(dispatch[last.function_name], last.arguments)
     /\ DictGet(last.arguments, "ts_code", "") = ""
     /\ DictGet(last.arguments, "trade_date", "") = "")
        => /\ last.out = Returned(ValidationError(last.function_name), 0)
           /\ ~last.queried
           /\ ~last.constructed

\* The rows a successful result may render, per method.
RowLimit ==
    [ get_concept_sector_daily |-> 20, get_index_daily |-> 10,
      get_stock_daily_basic |-> 5, get_stock_daily |-> 10, get_limit_list |-> 50,
      get_top_list |-> 30, get_moneyflow |-> 5 ]

\* execute() returned a table: the data source answered with rows.
Rendered == Executed /\ last.queried /\ last.df.kind = "rows" /\ last.df.rows > 0

\* C15 as stated: every one of the eight methods renders at most a fixed
\* number of rows, between 5 and 50.
C15_EveryMethodCapped == Rendered => last.out.rows <= 50

\* C15 amended: each of the seven methods other than get_concept_sector_members
\* renders at most its fixed number of rows, between 5 and 50 (the first rows
\* of the answer); get_concept_sector_members renders every row of the answer.
C15_RowsCapped ==
    Rendered =>
        /\ last.out.text = Headline(last.function_name)
        /\ last.function_name \in DOMAIN RowLimit =>
              /\ RowLimit[last.function_name] \in 5..50
              /\ last.out.rows = Min(last.df.rows, RowLimit[last.function_name])
        /\ last.function_name \notin DOMAIN RowLimit =>
              /\ last.function_name = "get_concept_sector_members"
              /\ last.out.rows = last.df.rows

\* get_limit_list was answered with more than 50 rows and rendered 50.
C15_Witness ==
    /\ Rendered
    /\ last.function_name = "get_limit_list"
    /\ last.df.rows > 50
    /\ last.out.rows = 50

\* C19: the handle is not constructed by the construction of the executor nor
\* by validate(); the first call that reaches the data source constructs it,
\* only a call that reaches the data source does; pro_api succeeds at most
\* once; every query goes to the stored handle; once set, the handle is
\* never reset or replaced.
C19_LazyHandle ==
    /\ [](/\ constructions <= 1
          /\ constructions = 0 <=> api = PyNone
          /\ executor_calls = 0 => api = PyNone
          /\ (Executed /\ last.queried) => (api # PyNone /\ last.handle = api)
          /\ (Executed /\ last.constructed) => last.queried)
    /\ [][ /\ api # PyNone => api' = api
           /\ validated' # NotCalled => (api' = api /\ constructions' = constructions)
           /\ (api = PyNone /\ last'.queried) =>
                 (last'.constructed /\ api' = Handle(token, 1)) ]_vars

\* A second query went to the handle the first one had constructed.
C19_Witness ==
    /\ Executed
    /\ executor_calls = 2
    /\ last.queried
    /\ ~last.constructed
    /\ last.handle = Handle(token, 1)

\* C20: when the data source answers a query of any of the eight methods with
\* nothing or with zero rows, execute returns a "no data" text that is not
\* empty; it does not raise.
C20_NoDataText ==
    (Executed /\ last.queried /\ (last.df.kind = "none" \/ (last.df.kind = "rows" /\ last.df.rows = 0)))
        => /\ last.out.exc = ""
           /\ last.out.rows = 0
           /\ StartsWith(last.out.text, "no data found for " \o last.function_name)
           /\ Len(last.out.text) > Len("no data found for ")

\* get_concept_sector_members was answered with zero rows.
C20_Witness ==
    /\ Executed
    /\ last.function_name = "get_concept_sector_members"
    /\ last.queried
    /\ last.df = QueryRows(0)
    /\ StartsWith(last.out.text, "no data found")

(***************************************************************************)
(* Properties of AIClient: validate_config and the request chat() builds.  *)
(***************************************************************************)
NonEmptyText(value) == value.t = "str" /\ value.s # ""

ConfigOk == NonEmptyText(self.model) /\ NonEmptyText(self.api_key) /\ Contains(self.model.s, "/")

\* C16: validate_config returns (TRUE, "") exactly when the model identifier is
\* non-empty, the credential is non-empty and the model identifier contains "/";
\* otherwise (e.g. model "gpt4") it returns FALSE with a non-empty reason.  The
\* call changes no client state and issues no request.
C16_ValidateConfig ==
    /\ [](validation # NotCalled =>
            /\ (ConfigOk => validation = <<TRUE, "">>)
            /\ (~ConfigOk => validation[1] = FALSE /\ validation[2] # "")
            /\ (self.model = PyStr("gpt4") => validation[1] = FALSE))
    /\ [][validation' # validation =>
            /\ self' = self
            /\ requests' = requests
            /\ UNCHANGED <<kwargs, lists, messages, pc, result, exc, executions>>]_vars

C16_Witness ==
    /\ validation[1] = FALSE
    /\ validation[2] = BadModelFormat("gpt4")
    /\ NonEmptyText(self.api_key)
    /\ requests = <<>>

\* The max_tokens value a request is built from: the override when given,
\* otherwise the configured default.
ResolvedMaxTokens == Get(kwargs, "max_tokens", self.max_tokens)

\* C17: a request holds a max_tokens entry only if the resolved max_tokens value
\* is a positive number; a zero, negative or null value leaves the entry out.
C17_MaxTokensOnlyIfPositive ==
    \A i \in 1..Len(requests) :
        "max_tokens" \in DOMAIN requests[i] =>
            ResolvedMaxTokens.t = "int" /\ ResolvedMaxTokens.n > 0

\* C18: every overrides key is in the request of chat() with the override's
\* value: a key the defaults set is superseded, any other key is passed through.
C18_OverridesSupersede ==
    \A i \in 1..Len(requests) :
        \A key \in DOMAIN kwargs :
            key \in DOMAIN requests[i] /\ requests[i][key] = kwargs[key]

(***************************************************************************)
(* Properties of chat_with_tools: order of the steps, growth of the        *)
(* conversation, type of the returned value.                               *)
(***************************************************************************)
IsPrefix(short, long) ==
    Len(short) <= Len(long) /\ SubSeq(long, 1, Len(short)) = short

\* The tool calls of the responses appended to msgs from position from on,
\* in the order the model emitted them.
RECURSIVE RequestedFrom(_, _)
RequestedFrom(msgs, from) ==
    IF from > Len(msgs) THEN <<>>
    ELSE (IF msgs[from].role = "assistant" THEN msgs[from].tool_calls ELSE <<>>)
             \o RequestedFrom(msgs, from + 1)

\* The tool calls requested by the in-loop responses of this invocation.
Requested == RequestedFrom(Conversation, Len(caller_messages) + 1)

\* The calls of the latest response that are not executed yet.
Outstanding ==
    IF pc = "tool" THEN Len(response_message.tool_calls) + 1 - call_idx
    ELSE IF exc = "tool_executor" THEN Len(response_message.tool_calls) - call_idx
    ELSE 0

\* The tool messages appended by this invocation, in order.
RECURSIVE ResultsFrom(_, _)
ResultsFrom(msgs, from) ==
    IF from > Len(msgs) THEN <<>>
    ELSE (IF msgs[from].role = "tool" THEN <<msgs[from]>> ELSE <<>>)
             \o ResultsFrom(msgs, from + 1)

\* C21: tool calls are executed one at a time: the executor invocations are,
\* in order and once each, the tool calls the in-loop responses requested (all
\* of them once no round is under way); an execution starts with the results
\* of all earlier executions in the conversation; a step makes one request or
\* one execution, never both, and a request is made only when every requested
\* call has been executed.
C21_Sequential ==
    /\ [](probe \in {"supported", "raised"} =>
            /\ Len(executions) + Outstanding = Len(Requested)
            /\ Len(executions) = tool_call_seq
            /\ \A k \in 1..Len(executions) :
                  /\ executions[k].name = Requested[k].name
                  /\ executions[k].args = func_args_of(Requested[k]))
    /\ [][ /\ requests' # requests =>
                /\ executions' = executions
                /\ Len(executions) = Len(Requested)
                /\ Len(requests') = Len(requests) + 1
           /\ executions' # executions =>
                /\ requests' = requests
                /\ Len(executions') = Len(executions) + 1
                /\ Len(requests) >= 1
                /\ Len(ResultsFrom(Conversation, Len(caller_messages) + 1)) = Len(executions)
                /\ Last(executions').name = Requested[Len(executions) + 1].name ]_vars

\* Three calls of one response were executed in a second round.
C21_Witness ==
    /\ pc = "final"
    /\ Len(requests) = 2
    /\ Len(response_message.tool_calls) = 3
    /\ Len(executions) >= 4
    /\ Last(executions).name = "get_top_list"
    /\ executions[Len(executions) - 2].name = "get_limit_list"

\* C22: the conversation only grows: the messages of every request start with
\* the caller's original messages and with the messages of the request before
\* it, and every step leaves the messages the conversation holds in place,
\* adding new ones at the end only.
C22_Monotone ==
    /\ [](\A i \in 1..Len(requests) :
            /\ IsPrefix(caller_messages, requests[i]["messages"])
            /\ i > 1 => IsPrefix(requests[i - 1]["messages"], requests[i]["messages"]))
    /\ [](IsPrefix(caller_messages, Conversation))
    /\ [][IsPrefix(Conversation, Conversation')]_vars

\* The second request carried the first request's messages, then the
\* assistant message and the two tool results of the first round.
C22_Witness ==
    /\ Len(requests) >= 2
    /\ caller_messages = LongConversation
    /\ Len(requests[2]["messages"]) = Len(requests[1]["messages"]) + 3
    /\ IsPrefix(requests[1]["messages"], requests[2]["messages"])

\* C24: whenever chat_with_tools returns (fallback to chat(), response
\* without tool calls, degraded exit) the value returned is a text, never
\* null, also for a null content of the provider's response.
C24_ReturnsText == pc = "returned" => result.t = "str"

(***************************************************************************)
(* Properties of the diagnostics of chat_with_tools.                       *)
(***************************************************************************)
\* The tool messages this invocation appended, in order.
Results == ResultsFrom(Conversation, Len(caller_messages) + 1)

\* C23: the preview printed about a tool result is cut at 200 characters, the
\* tool message appended is not: its content is the whole text the executor
\* returned, of the length the diagnostic reports, for a result of more than
\* 200 characters too; and where the invocation goes after an execution is
\* fixed by the position in the loop, whatever was printed.
C23_PreviewOnly ==
    /\ [](Len(printed) = Len(Results))
    /\ [][ printed' # printed =>
             LET shown == Last(printed')
                 message == Last(Conversation')
             IN  /\ pc = "tool"
                 /\ SubSeq(printed', 1, Len(printed)) = printed
                 /\ Len(printed') = Len(printed) + 1
                 /\ IsPrefix(Conversation, Conversation')
                 /\ Len(Conversation') = Len(Conversation) + 1
                 /\ message.role = "tool"
                 /\ message.content.t = "str"
                 /\ message.content.s \in ToolResults
                 /\ Len(message.content.s) = shown.length
                 /\ shown.preview = result_preview(message.content.s)
                 /\ Len(shown.preview) <= PreviewLimit
                 /\ shown.notice <=> Len(message.content.s) > PreviewLimit
                 /\ requests' = requests
                 /\ Len(executions') = Len(executions) + 1
                 /\ pc' = IF call_idx < Len(response_message.tool_calls) THEN "tool"
                          ELSE IF round_idx + 1 < max_rounds THEN "round" ELSE "final" ]_vars
    /\ [][ Len(Conversation') > Len(Conversation) /\ Last(Conversation').role = "tool"
              => printed' # printed ]_vars

\* A result of 210 characters was printed as a preview of 200 and appended whole.
C23_Witness ==
    /\ Len(printed) >= 1
    /\ Last(printed).notice
    /\ Len(Last(printed).preview) = 200
    /\ Last(Conversation).role = "tool"
    /\ Last(Conversation).content = PyStr(LongResult)
    /\ Len(LongResult) = 210

(***************************************************************************)
(* Properties of TushareToolExecutor: a construction of the handle that    *)
(* fails.                                                                  *)
(***************************************************************************)
\* The call gets as far as self.api: the tool is registered, the arguments
\* bind to the method's parameters, and the method's guard lets them pass.
NeedsDataSource(function_name, arguments) ==
    /\ function_name \in DOMAIN dispatch
    /\ ~BindError(dispatch[function_name], arguments)
    /\ ~(dispatch[function_name].guarded
            /\ query_params(dispatch[function_name], arguments) = {})

ConstructionFailed == Executed /\ last.attempted /\ ~last.constructed

\* C25: an execute() call in which the construction of the handle fails
\* (tushare not importable, or pro_api raising) returns an error text and
\* sends no query; the stored handle stays unset, so it is at any time either
\* unset or the handle of the one successful construction; and while it is
\* unset every execute() call that needs the data source attempts the
\* construction again.
C25_FailedConstruction ==
    /\ [](/\ api \in {PyNone, Handle(token, 1)}
          /\ api = PyNone <=> constructions = 0
          /\ ConstructionFailed =>
                /\ api = PyNone
                /\ ~last.queried
                /\ last.out.exc = ""
                /\ \/ last.out.text = NotInstalled
                   \/ StartsWith(last.out.text, "Tushare query failed"))
    /\ [][ (api = PyNone /\ pc = "executor" /\ last' # NoCall
               /\ NeedsDataSource(last'.function_name, last'.arguments)) =>
              /\ last'.attempted
              /\ attempts' = attempts + 1
              /\ last'.constructed => (api' = Handle(token, 1) /\ last'.queried) ]_vars

\* The first call failed to construct the handle, the second call
\* constructed it and sent its query to it.
C25_Witness ==
    /\ Executed
    /\ executor_calls = 2
    /\ attempts = 2
    /\ constructions = 1
    /\ last.constructed
    /\ last.queried
    /\ last.handle = Handle(token, 1)

====
